---- MODULE Spec2Model ----
(***************************************************************************)
(* FFmpegManager (src/unnamed/part_002): the job table, the caller         *)
(* commands startTranscode / pauseTranscode / resumeTranscode /            *)
(* cancelTranscode, and the progress / end / error handlers that           *)
(* fluent-ffmpeg invokes for each encoder process.                         *)
(*                                                                         *)
(* The Node event loop runs one handler at a time, so every action below   *)
(* is one handler run from its start to its return or to its next real     *)
(* suspension (an await on a timer or on a child process).  The encoder    *)
(* processes are the environment: they emit events into a per-process      *)
(* FIFO, and the event loop delivers the head of a FIFO to the handlers    *)
(* that were registered for that run.                                      *)
(***************************************************************************)
EXTENDS Integers, Sequences, FiniteSets, TLC

\* ---------------------------------------------------------------- bounds
MaxSubmits == 1   \* the caller submits while the table holds fewer tasks than this
MaxJobs == 2      \* tasks ever created (caller submits and fallback jobs)
MaxProcs == 2     \* encoder processes ever started
MaxQueue == 1     \* events of one process that are emitted and not yet delivered
MaxTimers == 1    \* safeDeleteFile calls that are waiting on a timer
MaxValidations == 2   \* calls of validateHardwareEncoder
MaxLogCalls == 8      \* entries logged by the calls of generateLogReport

\* ------------------------------------------------------- JavaScript values
NoCommand == 0            \* task.command === undefined
NoTime == "undefined"     \* task.endTime === undefined
SomeTime == "set"         \* task.endTime is a Date
NoError == [kind |-> "undefined", text |-> "", newTaskId |-> 0]
NoStats == "undefined"    \* task.stats === undefined

\* ------------------------------------------------------------ error texts
SigtermMessage == "ffmpeg was killed with signal SIGTERM"
OrdinaryMessage == "ffmpeg exited with code 1: Invalid data found when processing input"
HardwareMessage == "ffmpeg exited with code 1: No NVENC capable devices found"

\* err.message.includes('SIGTERM')
IncludesSIGTERM(message) == message = SigtermMessage

\* one message of the model per class of pattern: HardwareMessage contains
\* 'No NVENC capable devices found'; the other two contain no pattern
isHardwareAccelError(errorMessage) ==
    IF errorMessage = "" THEN FALSE ELSE errorMessage \in {HardwareMessage}

\* ---------------------------------------------------------------- options
\* a resolution is the sequence of its characters; the values of the form
NoResolution == <<>>
R3840x2160 == <<"3", "8", "4", "0", "x", "2", "1", "6", "0">>
R2560x1440 == <<"2", "5", "6", "0", "x", "1", "4", "4", "0">>
R1920x1080 == <<"1", "9", "2", "0", "x", "1", "0", "8", "0">>
R1280x720 == <<"1", "2", "8", "0", "x", "7", "2", "0">>
R854x480 == <<"8", "5", "4", "x", "4", "8", "0">>
R640x360 == <<"6", "4", "0", "x", "3", "6", "0">>
Resolutions == {NoResolution, R3840x2160, R2560x1440, R1920x1080, R1280x720, R854x480, R640x360}

Software == [outputFormat |-> "mp4", videoCodec |-> "libx264", audioCodec |-> "aac",
             videoBitrate |-> "", audioBitrate |-> "", resolution |-> NoResolution,
             fps |-> 0, hardwareAccel |-> "none"]
Hardware == [Software EXCEPT !.hardwareAccel = "nvenc"]
SubmitOptions == {Software, Hardware}

StreamCopyFormats == {"mp4", "avi", "mov", "flv", "mkv", "webm"}

isStreamCopy(o) ==
    /\ o.videoCodec = ""
    /\ o.audioCodec = ""
    /\ o.resolution = NoResolution
    /\ o.fps = 0
    /\ o.videoBitrate = ""
    /\ o.outputFormat \in StreamCopyFormats

\* the validator without the corrections that are specific to flv and webm
validateAndFixOptions_NoFormatRules(options) ==
    LET isAudioOnly == options.videoCodec = "" /\ options.audioCodec # ""
    IN IF isAudioOnly
       THEN LET f1 == IF options.outputFormat \notin {"mp3", "aac", "flac", "wav", "ogg", "mp4", "m4a"}
                      THEN [options EXCEPT !.outputFormat = "mp3"] ELSE options
                f2 == IF f1.audioCodec # "" /\ f1.audioCodec \notin {"aac", "libmp3lame", "flac", "pcm_s16le", "libvorbis"}
                      THEN [f1 EXCEPT !.audioCodec = "libmp3lame"] ELSE f1
            IN f2
       ELSE LET f1 == IF options.outputFormat \notin {"mp4", "avi", "mov", "flv", "mkv", "webm"}
                      THEN [options EXCEPT !.outputFormat = "mp4"] ELSE options
                f2 == IF f1.videoCodec # "" /\ f1.videoCodec \notin
                            {"libx264", "libx265", "libvpx", "libvpx-vp9", "h264_nvenc", "hevc_nvenc",
                             "h264_amf", "hevc_amf", "h264_qsv", "hevc_qsv"}
                      THEN [f1 EXCEPT !.videoCodec = "libx264"] ELSE f1
                f3 == IF f2.audioCodec # "" /\ f2.audioCodec \notin {"aac", "opus", "flac", "libvorbis"}
                      THEN [f2 EXCEPT !.audioCodec = "aac"] ELSE f2
            IN f3

\* lines 1586-1680
validateAndFixOptions(options) ==
    LET isAudioOnly == options.videoCodec = "" /\ options.audioCodec # ""
    IN IF isAudioOnly
       THEN LET f1 == IF options.outputFormat \notin {"mp3", "aac", "flac", "wav", "ogg", "mp4", "m4a"}
                      THEN [options EXCEPT !.outputFormat = "mp3"] ELSE options
                f2 == IF f1.audioCodec # "" /\ f1.audioCodec \notin {"aac", "libmp3lame", "flac", "pcm_s16le", "libvorbis"}
                      THEN [f1 EXCEPT !.audioCodec = "libmp3lame"] ELSE f1
            IN f2
       ELSE LET f1 == IF options.outputFormat \notin {"mp4", "avi", "mov", "flv", "mkv", "webm"}
                      THEN [options EXCEPT !.outputFormat = "mp4"] ELSE options
                f2 == IF f1.videoCodec # "" /\ f1.videoCodec \notin
                            {"libx264", "libx265", "libvpx", "libvpx-vp9", "h264_nvenc", "hevc_nvenc",
                             "h264_amf", "hevc_amf", "h264_qsv", "hevc_qsv"}
                      THEN [f1 EXCEPT !.videoCodec = "libx264"] ELSE f1
                f3 == IF f2.audioCodec # "" /\ f2.audioCodec \notin {"aac", "opus", "flac", "libvorbis"}
                      THEN [f2 EXCEPT !.audioCodec = "aac"] ELSE f2
                f4 == IF f3.outputFormat = "flv"
                      THEN IF f3.audioCodec \in {"opus", "flac"} THEN [f3 EXCEPT !.audioCodec = "aac"] ELSE f3
                      ELSE IF f3.outputFormat = "webm"
                      THEN LET g == IF f3.videoCodec \notin {"libvpx", "libvpx-vp9"}
                                    THEN [f3 EXCEPT !.videoCodec = "libvpx-vp9"] ELSE f3
                           IN IF g.audioCodec \notin {"opus", "libvorbis"}
                              THEN [g EXCEPT !.audioCodec = "opus"] ELSE g
                      ELSE f3
            IN f4

\* the options startTranscode stores on the task (lines 410-422)
SubmittedOptions(o) == IF isStreamCopy(o) THEN o ELSE validateAndFixOptions(o)

\* startTranscode awaits the encoder probe only on this path (lines 493, 554, 558);
\* validateHardwareEncoder spawns a probe only for these three families
NeedsProbe(o) ==
    /\ ~isStreamCopy(o)
    /\ o.videoCodec # ""
    /\ o.hardwareAccel \in {"nvenc", "amf", "qsv"}

\* ------------------------------------------------------- invocation plan
\* String.prototype.includes
Includes(text, pattern) ==
    \E i \in 1..(Len(text) - Len(pattern) + 1) : SubSeq(text, i, i + Len(pattern) - 1) = pattern

\* lines 639-651: the bitrate derived from the resolution
autoBitrate(resolution) ==
    IF Includes(resolution, R640x360) \/ Includes(resolution, <<"3", "6", "0", "p">>) THEN "500k"
    ELSE IF Includes(resolution, R1280x720) \/ Includes(resolution, <<"7", "2", "0", "p">>) THEN "1500k"
    ELSE IF Includes(resolution, R1920x1080) \/ Includes(resolution, <<"1", "0", "8", "0", "p">>) THEN "3000k"
    ELSE IF Includes(resolution, R2560x1440) \/ Includes(resolution, <<"1", "4", "4", "0", "p">>) THEN "6000k"
    ELSE IF Includes(resolution, R3840x2160) \/ Includes(resolution, <<"4", "K">>) THEN "12000k"
    ELSE "1000k"

\* the video bitrate with the table consulted first
planVideoBitrate_TableFirst(o) ==
    IF o.resolution # NoResolution THEN autoBitrate(o.resolution)
    ELSE o.videoBitrate

\* lines 634-655: "" when command.videoBitrate is not called
planVideoBitrate(o) ==
    IF o.videoBitrate # "" THEN o.videoBitrate
    ELSE IF o.resolution # NoResolution THEN autoBitrate(o.resolution)
    ELSE ""

\* lines 519-543 and 1151-1168: the -hwaccel input option
HwaccelInput(accel) ==
    CASE accel = "nvenc" -> "cuda"
      [] accel = "amf" -> "d3d11va"
      [] accel = "qsv" -> "qsv"
      [] accel = "d3d11va" -> "d3d11va"
      [] accel = "dxva2" -> "dxva2"
      [] OTHER -> ""

\* lines 594-607 and 1267-1280: the encoder of the accelerator
adjustCodec(accel, codec) ==
    CASE accel = "nvenc" /\ codec = "libx264" -> "h264_nvenc"
      [] accel = "nvenc" /\ codec = "libx265" -> "hevc_nvenc"
      [] accel = "amf" /\ codec = "libx264" -> "h264_amf"
      [] accel = "amf" /\ codec = "libx265" -> "hevc_amf"
      [] accel = "qsv" /\ codec = "libx264" -> "h264_qsv"
      [] accel = "qsv" /\ codec = "libx265" -> "hevc_qsv"
      [] OTHER -> codec

\* lines 470-675: the command startTranscode builds.  o: the options as they
\* are before the probe; streamCopy: the flag of line 410; isValid: the
\* result of validateHardwareEncoder where it is called
initialPlan(o, streamCopy, isValid) ==
    IF streamCopy
    THEN [streamCopy |-> TRUE, hwaccelInput |-> "", videoCodec |-> "copy", audioCodec |-> "copy",
          videoBitrate |-> "", audioBitrate |-> "", noVideo |-> FALSE,
          size |-> NoResolution, fps |-> 0]
    ELSE [streamCopy |-> FALSE,
          hwaccelInput |-> IF o.hardwareAccel \notin {"", "none"} THEN HwaccelInput(o.hardwareAccel) ELSE "",
          videoCodec |-> IF o.videoCodec # "" /\ o.hardwareAccel \notin {"", "none"} /\ isValid
                         THEN adjustCodec(o.hardwareAccel, o.videoCodec)
                         ELSE o.videoCodec,
          audioCodec |-> o.audioCodec,
          videoBitrate |-> planVideoBitrate(o),
          audioBitrate |-> IF o.audioBitrate # "" THEN o.audioBitrate ELSE "128k",
          noVideo |-> FALSE,
          size |-> o.resolution,
          fps |-> o.fps]

\* lines 1128-1330: the command resumeTranscode builds from task.options
applyTranscodeOptions(o) ==
    LET isAudioOnly == o.videoCodec = "" /\ o.audioCodec # ""
        copies == o.videoCodec = "" /\ o.audioCodec = "" /\ o.outputFormat \in StreamCopyFormats
    IN [streamCopy |-> copies,
        hwaccelInput |-> IF ~isAudioOnly /\ ~copies /\ o.hardwareAccel \notin {"", "none"}
                         THEN HwaccelInput(o.hardwareAccel) ELSE "",
        videoCodec |-> IF copies THEN "copy"
                       ELSE IF o.videoCodec # "" /\ o.hardwareAccel \notin {"", "none"}
                       THEN adjustCodec(o.hardwareAccel, o.videoCodec)
                       ELSE o.videoCodec,
        audioCodec |-> IF copies THEN "copy" ELSE o.audioCodec,
        videoBitrate |-> o.videoBitrate,
        audioBitrate |-> IF o.audioBitrate # "" THEN o.audioBitrate ELSE "128k",
        noVideo |-> isAudioOnly,
        size |-> o.resolution,
        fps |-> o.fps]

\* ------------------------------------------------------------------ state
VARIABLES
    tasks,      \* this.tasks: sequence of task records, task id = index
    procs,      \* encoder processes ever started, process id = index
    files,      \* output paths that exist on disk
    timers,     \* safeDeleteFile calls waiting on setTimeout
    awaiting,   \* task ids whose startTranscode is suspended on the probe
    now,        \* the last value Date.now() returned to startTranscode
    validations, \* calls of validateHardwareEncoder: probe, timer and promise
    globalLogs  \* this.globalLogs: the entries of the in-memory log, oldest first

vars == <<tasks, procs, files, timers, awaiting, now, validations, globalLogs>>

\* the state as one value, for the handlers below
State == [tasks |-> tasks, procs |-> procs, files |-> files, timers |-> timers,
          awaiting |-> awaiting, now |-> now, globalLogs |-> globalLogs]

TaskIds == 1..MaxJobs
ProcIds == 1..MaxProcs

\* ------------------------------------------------------------------- log
\* lines 313-314
maxGlobalLogs == 10000
keptGlobalLogs == 5000

\* the taskId of an entry that names no job
NoTask == 0

\* lines 272-279.  timestamp orders the readings of the clock: log reads it
\* later than it did for the entry before.
LogEntry(timestamp, level, category, taskId) ==
    [timestamp |-> timestamp, level |-> level, category |-> category, taskId |-> taskId]

\* Array.prototype.slice(-n)
sliceLast(entries, n) ==
    IF Len(entries) <= n THEN entries ELSE SubSeq(entries, Len(entries) - n + 1, Len(entries))

\* lines 271-316.  appendOk: fs.appendFileSync (line 294) returns; when it
\* throws, log is left at that line and its caller sees the exception.
log(s, level, category, taskId, appendOk) ==
    LET entry == LogEntry(IF s.globalLogs = <<>> THEN 1
                          ELSE s.globalLogs[Len(s.globalLogs)].timestamp + 1,
                          level, category, taskId)
        pushed == [s EXCEPT !.globalLogs = Append(@, entry),
                            !.tasks = IF taskId \in 1..Len(s.tasks)
                                      THEN [@ EXCEPT ![taskId].logs = Append(@, entry)]
                                      ELSE @]
    IN IF appendOk /\ Len(pushed.globalLogs) > maxGlobalLogs
       THEN [pushed EXCEPT !.globalLogs = sliceLast(@, keptGlobalLogs)]
       ELSE pushed

\* lines 206-265: the constructor logs three entries when it finds the binaries
constructedLogs ==
    <<LogEntry(1, "INFO", "SYSTEM", NoTask), LogEntry(2, "INFO", "SYSTEM", NoTask),
      LogEntry(3, "DEBUG", "SYSTEM", NoTask)>>

Init ==
    /\ tasks = <<>>
    /\ procs = <<>>
    /\ files = {}
    /\ timers = <<>>
    /\ awaiting = {}
    /\ now = 0
    /\ validations = <<>>
    /\ globalLogs = constructedLogs

\* what a handler leaves behind: the new state, the notifications it sent to
\* the renderer (sent) and what it returned to its caller (value)
Result(s, sent, value) ==
    [tasks |-> s.tasks, procs |-> s.procs, files |-> s.files, timers |-> s.timers,
     awaiting |-> s.awaiting, now |-> s.now, globalLogs |-> s.globalLogs,
     sent |-> sent, value |-> value]

Becomes(r) ==
    /\ tasks' = r.tasks
    /\ procs' = r.procs
    /\ files' = r.files
    /\ timers' = r.timers
    /\ awaiting' = r.awaiting
    /\ now' = r.now
    /\ globalLogs' = r.globalLogs
    /\ UNCHANGED validations

Exists(s, taskId) == taskId \in 1..Len(s.tasks)

\* lines 1529-1531: the set is empty where the Map gives undefined
getTaskStatus(s, taskId) == IF Exists(s, taskId) THEN {s.tasks[taskId]} ELSE {}

\* ------------------------------------------------------------ file system
\* startTranscode lines 404-405: `${nameWithoutExt}_${Date.now()}${ext}`.
\* The extension is a function of the container (lines 387-401) and every
\* job of one run of the model that shares a requested name shares the
\* container's extension, so it is not written in the path.
\* A path is the sequence of the parts joined by '_'; a collision counter
\* (lines 435-444) is written as a negative part, a time stamp as a
\* non-negative one, since Date.now() never is a small counter value.
RequestedOutputs == {<<0>>}

safeFileName(outputFile, time) == Append(outputFile, time)

finalOutputFile(outputFile, onDisk) ==
    IF outputFile \notin onDisk THEN outputFile
    ELSE LET free(counter) == Append(outputFile, 0 - counter) \notin onDisk
             counter == CHOOSE c \in 1..(Cardinality(onDisk) + 1) :
                            free(c) /\ \A d \in 1..(c - 1) : ~free(d)
         IN Append(outputFile, 0 - counter)

\* an encoder process that has opened its output and not exited holds it
Locked(s, file) ==
    \E p \in 1..Len(s.procs) :
        s.procs[p].alive /\ s.procs[p].opened /\ s.tasks[s.procs[p].task].outputFile = file

\* fs.unlinkSync on a file held by a live process fails on Windows and
\* succeeds on POSIX; on a file nobody holds it succeeds
UnlinkResults(s, file) == IF Locked(s, file) THEN {TRUE, FALSE} ELSE {TRUE}

\* `if (fs.existsSync(f)) { try { fs.unlinkSync(f) } catch {} }`
unlinkIfExists(onDisk, file, ok) == IF file \in onDisk /\ ok THEN onDisk \ {file} ELSE onDisk

\* ---------------------------------------------------------- notifications
Note(channel, taskId, progress, status, hasError) ==
    [channel |-> channel, taskId |-> taskId, progress |-> progress,
     status |-> status, hasError |-> hasError]

\* ------------------------------------------------------------------ tasks
newTask(requested, options, onDisk, time) ==
    [outputFile |-> finalOutputFile(safeFileName(requested, time), onDisk),
     requested |-> requested,
     options |-> options,
     status |-> "pending",
     progress |-> 0,
     endTime |-> NoTime,
     error |-> NoError,
     stats |-> NoStats,
     command |-> NoCommand,
     logs |-> <<>>]

newProc(taskId, run, plan) ==
    [task |-> taskId, run |-> run, plan |-> plan, alive |-> TRUE, signalled |-> FALSE,
     opened |-> FALSE, queue |-> <<>>]

\* the end of startTranscode without `task.status = 'running'`
runCommand_StaysPending(s, taskId, plan) ==
    [s EXCEPT !.tasks[taskId].command = Len(s.procs) + 1,
              !.procs = Append(@, newProc(taskId, "initial", plan))]

\* startTranscode lines 873-878: task.command = command; status = 'running'; command.run()
runCommand(s, taskId, plan) ==
    [s EXCEPT !.tasks[taskId].command = Len(s.procs) + 1,
              !.tasks[taskId].status = "running",
              !.procs = Append(@, newProc(taskId, "initial", plan))]

\* command.kill('SIGTERM'): a signal to a process that has exited is lost
kill(ps, p) == IF ps[p].alive THEN [ps EXCEPT ![p].signalled = TRUE] ELSE ps

\* ---------------------------------------------------------- startTranscode
\* milliseconds between two readings of Date.now() by startTranscode; the
\* first reading of a session is written 1
Elapsed == IF tasks = <<>> THEN {1} ELSE {0, 1}

\* lines 361-881 up to the first real suspension.  dirError: the output
\* directory is missing and mkdirSync throws (lines 426-433), before the task
\* is created; value 0 stands for the rejected promise.
startTranscode(s, requested, options, dirError, elapsed) ==
    IF dirError
    THEN Result(s, <<>>, 0)
    ELSE LET fixed == SubmittedOptions(options)
             taskId == Len(s.tasks) + 1
             created == [s EXCEPT !.tasks = Append(@, newTask(requested, fixed, s.files, s.now + elapsed)),
                                  !.now = @ + elapsed]
             validatedAtOnce == /\ ~isStreamCopy(options)
                                /\ fixed.videoCodec # ""
                                /\ fixed.hardwareAccel \notin {"", "none"}
         IN IF NeedsProbe(fixed)
            THEN Result([log(created, "INFO", "HARDWARE", NoTask, TRUE) EXCEPT !.awaiting = @ \cup {taskId}],
                        <<>>, 0)
            ELSE Result(runCommand(IF validatedAtOnce
                                   THEN log(log(created, "INFO", "HARDWARE", taskId, TRUE),
                                            "INFO", "HARDWARE", taskId, TRUE)
                                   ELSE created,
                                   taskId, initialPlan(fixed, isStreamCopy(options), TRUE)),
                        <<>>, taskId)

\* lines 565-578 and 609: the entries startTranscode logs for the job after the probe
logValidation(s, taskId, isValid) ==
    log(log(s, "INFO", "HARDWARE", taskId, TRUE),
        IF isValid THEN "INFO" ELSE "WARN", "HARDWARE", taskId, TRUE)

\* startTranscode after the probe without line 591 (hardwareAccel = 'none')
startTranscodeValidated_KeepsAccel(s, taskId, isValid) ==
    Result(runCommand([logValidation(s, taskId, isValid) EXCEPT !.awaiting = @ \ {taskId}], taskId,
                      initialPlan(s.tasks[taskId].options, FALSE, isValid)),
           IF isValid THEN <<>>
           ELSE <<Note("ffmpeg:hardware-validation-failed", taskId, 0, "pending", TRUE)>>,
           taskId)

\* lines 560-621 and 873-880: the probe has resolved, startTranscode goes on
startTranscodeValidated(s, taskId, isValid) ==
    LET resumed == [logValidation(s, taskId, isValid) EXCEPT !.awaiting = @ \ {taskId}]
        downgraded == IF isValid THEN resumed
                      ELSE [resumed EXCEPT !.tasks[taskId].options.hardwareAccel = "none"]
    IN Result(runCommand(downgraded, taskId, initialPlan(s.tasks[taskId].options, FALSE, isValid)),
              IF isValid THEN <<>>
              ELSE <<Note("ffmpeg:hardware-validation-failed", taskId, 0, "pending", TRUE)>>,
              taskId)

\* ---------------------------------------------------------- pauseTranscode
\* pauseTranscode without the test of task.status
pauseTranscode_AnyStatus(s, taskId) ==
    IF ~Exists(s, taskId) \/ s.tasks[taskId].command = NoCommand
    THEN Result(s, <<>>, FALSE)
    ELSE Result([s EXCEPT !.procs = kill(@, s.tasks[taskId].command),
                          !.tasks[taskId].status = "paused",
                          !.tasks[taskId].endTime = SomeTime],
                <<Note("ffmpeg:progress", taskId, s.tasks[taskId].progress, "paused", FALSE)>>,
                TRUE)

\* lines 886-917
pauseTranscode(s, taskId) ==
    IF ~Exists(s, taskId) \/ s.tasks[taskId].command = NoCommand \/ s.tasks[taskId].status # "running"
    THEN Result(s, <<>>, FALSE)
    ELSE Result([s EXCEPT !.procs = kill(@, s.tasks[taskId].command),
                          !.tasks[taskId].status = "paused",
                          !.tasks[taskId].endTime = SomeTime],
                <<Note("ffmpeg:progress", taskId, s.tasks[taskId].progress, "paused", FALSE)>>,
                TRUE)

\* --------------------------------------------------------- cancelTranscode
\* a cancel that resets the progress of every job of the table
cancelTranscode_EveryJob(s, taskId) ==
    IF ~Exists(s, taskId) \/ s.tasks[taskId].command = NoCommand
    THEN Result(s, <<>>, FALSE)
    ELSE Result([s EXCEPT !.procs = kill(@, s.tasks[taskId].command),
                          !.tasks = [k \in DOMAIN @ |->
                                        IF k = taskId
                                        THEN [@[k] EXCEPT !.status = "pending", !.progress = 0,
                                                          !.endTime = SomeTime]
                                        ELSE [@[k] EXCEPT !.progress = 0]],
                          !.timers = Append(@, [task |-> taskId, file |-> s.tasks[taskId].outputFile,
                                                attempt |-> 0, then |-> "nothing"])],
                <<Note("ffmpeg:progress", taskId, 0, "pending", FALSE)>>,
                TRUE)

\* lines 1486-1524.  The delayed deletion is a timer entry that has not
\* started its first attempt.
cancelTranscode(s, taskId) ==
    IF ~Exists(s, taskId) \/ s.tasks[taskId].command = NoCommand
    THEN Result(s, <<>>, FALSE)
    ELSE Result([s EXCEPT !.procs = kill(@, s.tasks[taskId].command),
                          !.tasks[taskId].status = "pending",
                          !.tasks[taskId].progress = 0,
                          !.tasks[taskId].endTime = SomeTime,
                          !.timers = Append(@, [task |-> taskId, file |-> s.tasks[taskId].outputFile,
                                                attempt |-> 0, then |-> "nothing"])],
                <<Note("ffmpeg:progress", taskId, 0, "pending", FALSE)>>,
                TRUE)

\* --------------------------------------------------------- resumeTranscode
maxRetries == 3      \* safeDeleteFile's default number of attempts

RemoveAt(seq, i) == SubSeq(seq, 1, i - 1) \o SubSeq(seq, i + 1, Len(seq))

\* the rest of resumeTranscode without `task.progress = 0`
resumeRest_KeepsProgress(s, taskId, dirError) ==
    IF dirError
    THEN Result(s, <<>>, FALSE)
    ELSE Result([s EXCEPT !.tasks[taskId].status = "running",
                          !.tasks[taskId].endTime = NoTime,
                          !.tasks[taskId].error = NoError,
                          !.tasks[taskId].command = Len(s.procs) + 1,
                          !.procs = Append(@, newProc(taskId, "resumed", applyTranscodeOptions(s.tasks[taskId].options)))],
                <<>>, TRUE)

\* lines 937-1122, what runs after the old output has been dealt with.
\* dirError: the output directory is missing and mkdirSync throws (line 941);
\* the catch at line 1119 then returns false.
resumeRest(s, taskId, dirError) ==
    IF dirError
    THEN Result(s, <<>>, FALSE)
    ELSE Result([s EXCEPT !.tasks[taskId].status = "running",
                          !.tasks[taskId].progress = 0,
                          !.tasks[taskId].endTime = NoTime,
                          !.tasks[taskId].error = NoError,
                          !.tasks[taskId].command = Len(s.procs) + 1,
                          !.procs = Append(@, newProc(taskId, "resumed", applyTranscodeOptions(s.tasks[taskId].options)))],
                <<>>, TRUE)

\* lines 922-935 and, when the old output is gone at once, the rest; when the
\* first unlink fails the call is suspended in safeDeleteFile (value FALSE
\* with a "resume" timer stands for the promise that is still pending)
resumeTranscode(s, taskId, unlinkOk, dirError) ==
    IF ~Exists(s, taskId) \/ s.tasks[taskId].status # "paused"
    THEN Result(s, <<>>, FALSE)
    ELSE IF s.tasks[taskId].outputFile \in s.files /\ ~unlinkOk
    THEN Result([s EXCEPT !.timers = Append(@, [task |-> taskId, file |-> s.tasks[taskId].outputFile,
                                                attempt |-> 1, then |-> "resume"])],
                <<>>, FALSE)
    ELSE resumeRest([s EXCEPT !.files = @ \ {s.tasks[taskId].outputFile}], taskId, dirError)

\* ----------------------------------------------------------- safeDeleteFile
\* lines 1460-1481, one attempt of the loop, run by a timer: the 500 ms
\* timer of cancelTranscode (attempt 0) or the retry wait of line 1474.
\* When the call returns into a suspended resumeTranscode, that one goes on.
safeDeleteFile(s, i, unlinkOk, dirError) ==
    LET t == s.timers[i]
        failed == t.file \in s.files /\ ~unlinkOk
    IN IF failed /\ t.attempt < maxRetries - 1
       THEN Result([s EXCEPT !.timers[i].attempt = @ + 1], <<>>, FALSE)
       ELSE LET done == [s EXCEPT !.timers = RemoveAt(@, i),
                                  !.files = IF failed THEN @ ELSE @ \ {t.file}]
            IN IF t.then = "resume"
               THEN resumeRest(done, t.task, dirError)
               ELSE Result(done, <<>>, ~failed)

\* ---------------------------------------------------------- event handlers
\* progress.percent as fluent-ffmpeg reports it: in range, above 100
RawSamples == {[hasPercent |-> TRUE, percent |-> 40],
               [hasPercent |-> TRUE, percent |-> 150]}

NoSample == [hasPercent |-> FALSE, percent |-> 0]

RuntimeErrors == {OrdinaryMessage, HardwareMessage}

Event(type, sample, message) ==
    [type |-> type, hasPercent |-> sample.hasPercent, percent |-> sample.percent, message |-> message]

\* the event that process p delivers next
Next_(s, p) == s.procs[p].queue[1]

Delivers(s, p, type) ==
    /\ p \in 1..Len(s.procs)
    /\ Len(s.procs[p].queue) > 0
    /\ Next_(s, p).type = type

Dequeued(s, p) == [s EXCEPT !.procs[p].queue = Tail(@)]

\* `progress.percent || 0`: undefined, NaN and 0 give 0
percentOrZero(e) == IF e.hasPercent /\ e.percent # 0 THEN e.percent ELSE 0

\* the progress handler without `task.status = 'running'`
onProgress_KeepsStatus(s, p) ==
    LET taskId == s.procs[p].task
        e == Next_(s, p)
        updated == [Dequeued(s, p) EXCEPT !.tasks[taskId].progress = percentOrZero(e)]
    IN Result(updated,
              <<Note("ffmpeg:progress", taskId, percentOrZero(e), "running", FALSE)>>,
              TRUE)

\* lines 677-699 (initial run) and 963-985 (resumed run), identical
onProgress(s, p) ==
    LET taskId == s.procs[p].task
        e == Next_(s, p)
        updated == [Dequeued(s, p) EXCEPT !.tasks[taskId].progress = percentOrZero(e),
                                          !.tasks[taskId].status = "running"]
    IN Result(updated,
              <<Note("ffmpeg:progress", taskId, percentOrZero(e), "running", FALSE)>>,
              TRUE)

\* lines 742-752: the ffmpeg:completed notification and what it carries
CompletedNote(taskId) ==
    Note("ffmpeg:completed", taskId, 100, "completed", FALSE)
       @@ [statistics |-> {"duration", "inputSize", "outputSize", "compressionRatio"}]

\* the completion handler dropping the finished job from the table
onEnd_Evicts(s, p) ==
    LET taskId == s.procs[p].task
        updated == [Dequeued(s, p) EXCEPT !.tasks = RemoveAt(@, taskId)]
    IN Result(updated,
              IF s.procs[p].run = "initial"
              THEN <<Note("ffmpeg:progress", taskId, 100, "completed", FALSE),
                     CompletedNote(taskId)>>
              ELSE <<Note("ffmpeg:progress", taskId, 100, "completed", FALSE)>>,
              TRUE)

\* lines 702-754 (initial run) and 988-1006 (resumed run)
onEnd(s, p) ==
    LET taskId == s.procs[p].task
        updated == [Dequeued(s, p) EXCEPT !.tasks[taskId].status = "completed",
                                          !.tasks[taskId].progress = 100,
                                          !.tasks[taskId].endTime = SomeTime]
    IN Result(updated,
              IF s.procs[p].run = "initial"
              THEN <<Note("ffmpeg:progress", taskId, 100, "completed", FALSE),
                     CompletedNote(taskId)>>
              ELSE <<Note("ffmpeg:progress", taskId, 100, "completed", FALSE)>>,
              TRUE)

\* the error handler without its second early return
isBenign_PausedOnly(task, message) == task.status = "paused"

\* lines 759-768 and 1011-1020: the two early returns of the error handler
isBenign(task, message) ==
    \/ task.status = "paused"
    \/ (message # "" /\ IncludesSIGTERM(message) /\ task.status = "pending")

\* lines 791-796 and 1043-1048: the hardware-fallback notification names the
\* accel the job had and the error
FallbackNote(taskId, task, message) ==
    Note("ffmpeg:hardware-fallback", taskId, task.progress, task.status, TRUE)
       @@ [originalHardwareAccel |-> task.options.hardwareAccel, error |-> message]

\* the fallback condition with the test of 'none' inverted
wantsFallback_Inverted(task, message) ==
    /\ isHardwareAccelError(message)
    /\ task.options.hardwareAccel = "none"

\* lines 774 and 1026
wantsFallback(task, message) ==
    /\ isHardwareAccelError(message)
    /\ task.options.hardwareAccel # ""
    /\ task.options.hardwareAccel # "none"

ErrorOf(kind, text, newTaskId) == [kind |-> kind, text |-> text, newTaskId |-> newTaskId]

\* lines 835-869 (initial run): the output is deleted, two notifications;
\* lines 1088-1104 (resumed run): the output is kept, one notification
failureTail(s, p, taskId, unlinkOk, before) ==
    LET task == s.tasks[taskId]
        initial == s.procs[p].run = "initial"
    IN Result([s EXCEPT !.tasks[taskId].endTime = SomeTime,
                        !.files = IF initial THEN unlinkIfExists(@, task.outputFile, unlinkOk) ELSE @],
              before \o
              (IF initial
               THEN <<Note("ffmpeg:progress", taskId, task.progress, task.status, TRUE),
                      Note("ffmpeg:failed", taskId, task.progress, task.status, TRUE)>>
               ELSE <<Note("ffmpeg:progress", taskId, task.progress, task.status, TRUE)>>),
              FALSE)

\* lines 757-870 (initial run) and 1009-1105 (resumed run).
\* dirError: the nested startTranscode throws (lines 426-433).
onError(s, p, unlinkOk, dirError, elapsed) ==
    LET taskId == s.procs[p].task
        task == s.tasks[taskId]
        message == Next_(s, p).message
        taken == Dequeued(s, p)
    IN IF isBenign(task, message)
       THEN Result(taken, <<>>, TRUE)
       ELSE IF wantsFallback(task, message)
       THEN LET cleaned == [taken EXCEPT !.files = unlinkIfExists(@, task.outputFile, unlinkOk)]
                advisory == <<FallbackNote(taskId, task, message)>>
                fallbackOptions == [task.options EXCEPT !.hardwareAccel = "none"]
                requested == IF s.procs[p].run = "initial" THEN task.requested ELSE task.outputFile
                fallback == startTranscode(cleaned, requested, fallbackOptions, dirError, elapsed)
            IN IF fallback.value = 0
               THEN failureTail([cleaned EXCEPT !.tasks[taskId].status = "pending",
                                                !.tasks[taskId].progress = 0,
                                                !.tasks[taskId].error = ErrorOf("fallbackFailed", message, 0)],
                                p, taskId, unlinkOk, advisory)
               ELSE [fallback EXCEPT !.tasks[taskId].status = "cancelled",
                                     !.tasks[taskId].error = ErrorOf("switched", "", fallback.value),
                                     !.sent = advisory,
                                     !.value = TRUE]
       ELSE failureTail([taken EXCEPT !.tasks[taskId].status = "pending",
                                      !.tasks[taskId].progress = 0,
                                      !.tasks[taskId].error = ErrorOf("message", message, 0)],
                        p, taskId, unlinkOk, <<>>)

\* ---------------------------------------------------------- caller actions
\* processes started, or about to be started by a suspended call
Reserved == Len(procs) + Cardinality(awaiting)
               + Cardinality({i \in 1..Len(timers) : timers[i].then = "resume"})

Submit(requested, options, dirError, elapsed) ==
    /\ Len(tasks) < MaxSubmits
    /\ Len(tasks) < MaxJobs
    /\ Reserved < MaxProcs
    /\ elapsed \in (IF dirError THEN {1} ELSE Elapsed)
    /\ Becomes(startTranscode(State, requested, options, dirError, elapsed))

\* lines 1791-1854: the level of the entry the validator logs before it resolves
ResolveLevels(isValid) == IF isValid THEN {"INFO"} ELSE {"WARN", "ERROR"}

ProbeResolved(taskId, isValid) ==
    /\ taskId \in awaiting
    /\ \E level \in ResolveLevels(isValid) :
          Becomes(startTranscodeValidated(log(State, level, "HARDWARE", NoTask, TRUE), taskId, isValid))

Pause(taskId) ==
    /\ Becomes(pauseTranscode(State, taskId))

Cancel(taskId) ==
    /\ Len(timers) < MaxTimers
    /\ Becomes(cancelTranscode(State, taskId))

Resume(taskId, unlinkOk, dirError) ==
    /\ Reserved < MaxProcs
    /\ Len(timers) < MaxTimers
    /\ Exists(State, taskId)
    /\ unlinkOk \in UnlinkResults(State, tasks[taskId].outputFile)
    /\ Becomes(resumeTranscode(State, taskId, unlinkOk, dirError))

TimerFires(i, unlinkOk, dirError) ==
    /\ i \in 1..Len(timers)
    /\ unlinkOk \in UnlinkResults(State, timers[i].file)
    /\ dirError => timers[i].then = "resume"
    /\ Becomes(safeDeleteFile(State, i, unlinkOk, dirError))

\* ------------------------------------------------------ encoder processes
Running(p) == p \in 1..Len(procs) /\ procs[p].alive /\ ~procs[p].signalled

\* a process that has exited holds no file and takes no signal
exited(proc, last) ==
    [proc EXCEPT !.alive = FALSE, !.signalled = FALSE, !.opened = FALSE,
                 !.queue = Append(@, last)]

\* the encoder creates its output file
ProcOpen(p) ==
    /\ Running(p)
    /\ ~procs[p].opened
    /\ procs' = [procs EXCEPT ![p].opened = TRUE]
    /\ files' = files \cup {tasks[procs[p].task].outputFile}
    /\ UNCHANGED <<tasks, timers, awaiting, now, validations, globalLogs>>

\* the encoder writes a progress line
ProcProgress(p, sample) ==
    /\ Running(p)
    /\ Len(procs[p].queue) < MaxQueue
    /\ procs' = [procs EXCEPT ![p].queue = Append(@, Event("progress", sample, ""))]
    /\ UNCHANGED <<tasks, files, timers, awaiting, now, validations, globalLogs>>

\* the encoder exits with code 0
ProcEnd(p) ==
    /\ Running(p)
    /\ procs[p].opened
    /\ Len(procs[p].queue) < MaxQueue
    /\ procs' = [procs EXCEPT ![p] = exited(@, Event("end", NoSample, ""))]
    /\ UNCHANGED <<tasks, files, timers, awaiting, now, validations, globalLogs>>

\* the encoder exits with a failure of its own
ProcError(p, message) ==
    /\ Running(p)
    /\ Len(procs[p].queue) < MaxQueue
    /\ procs' = [procs EXCEPT ![p] = exited(@, Event("error", NoSample, message))]
    /\ UNCHANGED <<tasks, files, timers, awaiting, now, validations, globalLogs>>

\* the encoder dies of the SIGTERM sent by pause or cancel
ProcKilled(p) ==
    /\ p \in 1..Len(procs)
    /\ procs[p].alive
    /\ procs[p].signalled
    /\ Len(procs[p].queue) < MaxQueue
    /\ procs' = [procs EXCEPT ![p] = exited(@, Event("error", NoSample, SigtermMessage))]
    /\ UNCHANGED <<tasks, files, timers, awaiting, now, validations, globalLogs>>

\* ------------------------------------------------------------- event loop
DeliverProgress(p) ==
    /\ Delivers(State, p, "progress")
    /\ Becomes(onProgress(State, p))

DeliverEnd(p) ==
    /\ Delivers(State, p, "end")
    /\ Becomes(onEnd(State, p))

\* the inputs that the handler does not read on its path are held fixed
ErrorInputs(p) ==
    LET task == tasks[procs[p].task]
        message == Next_(State, p).message
        falls == ~isBenign(task, message) /\ wantsFallback(task, message)
    IN {in \in [unlinkOk : BOOLEAN, dirError : BOOLEAN, elapsed : {0, 1}] :
            /\ in.unlinkOk \in UnlinkResults(State, task.outputFile)
            /\ isBenign(task, message) => in.unlinkOk
            /\ ~falls => ~in.dirError
            /\ in.elapsed \in (IF falls /\ ~in.dirError THEN Elapsed ELSE {1})}

DeliverError(p, in) ==
    /\ Delivers(State, p, "error")
    /\ in \in ErrorInputs(p)
    /\ LET task == tasks[procs[p].task]
       IN (~isBenign(task, Next_(State, p).message) /\ wantsFallback(task, Next_(State, p).message))
             => (Len(tasks) < MaxJobs /\ Reserved < MaxProcs)
    /\ Becomes(onError(State, p, in.unlinkOk, in.dirError, in.elapsed))

\* -------------------------------------------------------------------- Next
Next ==
    \/ \E r \in RequestedOutputs, o \in SubmitOptions, d \in BOOLEAN, e \in {0, 1} : Submit(r, o, d, e)
    \/ \E j \in TaskIds, v \in BOOLEAN : ProbeResolved(j, v)
    \/ \E j \in TaskIds : Pause(j)
    \/ \E j \in TaskIds, u \in BOOLEAN, d \in BOOLEAN : Resume(j, u, d)
    \/ \E j \in TaskIds : Cancel(j)
    \/ \E i \in 1..MaxTimers, u \in BOOLEAN, d \in BOOLEAN : TimerFires(i, u, d)
    \/ \E p \in ProcIds : ProcOpen(p)
    \/ \E p \in ProcIds, s \in RawSamples : ProcProgress(p, s)
    \/ \E p \in ProcIds : ProcEnd(p)
    \/ \E p \in ProcIds, m \in RuntimeErrors : ProcError(p, m)
    \/ \E p \in ProcIds : ProcKilled(p)
    \/ \E p \in ProcIds : DeliverProgress(p)
    \/ \E p \in ProcIds : DeliverEnd(p)
    \/ \E p \in ProcIds, in \in [unlinkOk : BOOLEAN, dirError : BOOLEAN, elapsed : {0, 1}] : DeliverError(p, in)

Spec == Init /\ [][Next]_vars

\* the caller submits, and cancels running jobs, and does nothing else; the
\* 500 ms timer of a cancel has not fired yet
CancelNext ==
    \/ \E r \in RequestedOutputs, o \in SubmitOptions, d \in BOOLEAN, e \in {0, 1} : Submit(r, o, d, e)
    \/ \E j \in TaskIds, v \in BOOLEAN : ProbeResolved(j, v)
    \/ \E j \in TaskIds : Exists(State, j) /\ tasks[j].status = "running" /\ Cancel(j)
    \/ \E p \in ProcIds : ProcOpen(p)
    \/ \E p \in ProcIds, s \in RawSamples : ProcProgress(p, s)
    \/ \E p \in ProcIds : ProcEnd(p)
    \/ \E p \in ProcIds, m \in RuntimeErrors : ProcError(p, m)
    \/ \E p \in ProcIds : ProcKilled(p)
    \/ \E p \in ProcIds : DeliverProgress(p)
    \/ \E p \in ProcIds : DeliverEnd(p)
    \/ \E p \in ProcIds, in \in [unlinkOk : BOOLEAN, dirError : BOOLEAN, elapsed : {0, 1}] : DeliverError(p, in)

CancelSpec == Init /\ [][CancelNext]_vars

\* the caller submits a batch of jobs under one requested name and cancels
\* some; no job is paused or resumed and the timers of the cancels have not
\* fired yet
BatchSubmit(requested, options, elapsed) ==
    /\ Len(tasks) < MaxJobs
    /\ Reserved < MaxProcs
    /\ elapsed \in Elapsed
    /\ Becomes(startTranscode(State, requested, options, FALSE, elapsed))

BatchNext ==
    \/ \E r \in RequestedOutputs, o \in SubmitOptions, e \in {0, 1} : BatchSubmit(r, o, e)
    \/ \E j \in TaskIds, v \in BOOLEAN : ProbeResolved(j, v)
    \/ \E j \in TaskIds : Cancel(j)
    \/ \E p \in ProcIds : ProcOpen(p)
    \/ \E p \in ProcIds, s \in RawSamples : ProcProgress(p, s)
    \/ \E p \in ProcIds : ProcEnd(p)
    \/ \E p \in ProcIds, m \in RuntimeErrors : ProcError(p, m)
    \/ \E p \in ProcIds : ProcKilled(p)
    \/ \E p \in ProcIds : DeliverProgress(p)
    \/ \E p \in ProcIds : DeliverEnd(p)
    \/ \E p \in ProcIds, in \in [unlinkOk : BOOLEAN, dirError : BOOLEAN, elapsed : {0, 1}] : DeliverError(p, in)

BatchSpec == Init /\ [][BatchNext]_vars

\* one caller submit, pauses and resumes, encoders that fail: the jobs and
\* processes that one submit can lead to
ChainJobs == MaxJobs + 1
ChainProcs == MaxProcs + 2

ChainSubmit(requested, options) ==
    /\ tasks = <<>>
    /\ Becomes(startTranscode(State, requested, options, FALSE, 1))

ChainResume(taskId) ==
    /\ Len(procs) + Cardinality(awaiting) < ChainProcs
    /\ Exists(State, taskId)
    /\ Becomes(resumeTranscode(State, taskId, TRUE, FALSE))

ChainDeliverError(p, elapsed) ==
    /\ Delivers(State, p, "error")
    /\ elapsed \in Elapsed
    /\ LET task == tasks[procs[p].task]
       IN (~isBenign(task, Next_(State, p).message) /\ wantsFallback(task, Next_(State, p).message))
             => (Len(tasks) < ChainJobs /\ Len(procs) + Cardinality(awaiting) < ChainProcs)
    /\ Becomes(onError(State, p, TRUE, FALSE, elapsed))

ChainNext ==
    \/ \E r \in RequestedOutputs, o \in SubmitOptions : ChainSubmit(r, o)
    \/ \E j \in 1..ChainJobs, v \in BOOLEAN : ProbeResolved(j, v)
    \/ \E j \in 1..ChainJobs : Pause(j)
    \/ \E j \in 1..ChainJobs : ChainResume(j)
    \/ \E p \in 1..ChainProcs, m \in RuntimeErrors : ProcError(p, m)
    \/ \E p \in 1..ChainProcs : ProcKilled(p)
    \/ \E p \in 1..ChainProcs, e \in {0, 1} : ChainDeliverError(p, e)

ChainSpec == Init /\ [][ChainNext]_vars

\* one submit of a request that is not a stream copy, over the containers
\* and codecs that meet the rules of validateAndFixOptions
ValidatorFormats == {"mp4", "flv", "webm", "mp3", "wav", "gif"}
ValidatorVideoCodecs == {"", "libx264", "libvpx", "libaom-av1"}
ValidatorAudioCodecs == {"", "aac", "opus", "flac", "mp3"}
ValidatorOptions ==
    {[Software EXCEPT !.outputFormat = f, !.videoCodec = v, !.audioCodec = a, !.fps = r,
                      !.videoBitrate = b] :
        f \in ValidatorFormats, v \in ValidatorVideoCodecs, a \in ValidatorAudioCodecs,
        r \in {0, 30}, b \in {"", "2000k"}}

OptionSubmit(o) ==
    /\ tasks = <<>>
    /\ Becomes(startTranscode(State, <<0>>, o, FALSE, 1))

OptionNext == \E o \in ValidatorOptions : OptionSubmit(o)

OptionSpec == Init /\ [][OptionNext]_vars

\* one job whose resume is suspended in safeDeleteFile while the caller goes
\* on sending commands for it: one more process and one more timer than Spec
\* has room for
WindowProcs == MaxProcs + 1
WindowTimers == MaxTimers + 1

WindowSubmit(requested) ==
    /\ tasks = <<>>
    /\ Becomes(startTranscode(State, requested, Software, FALSE, 1))

WindowResume(taskId, unlinkOk) ==
    /\ Reserved < WindowProcs
    /\ Len(timers) < WindowTimers
    /\ Exists(State, taskId)
    /\ unlinkOk \in UnlinkResults(State, tasks[taskId].outputFile)
    /\ Becomes(resumeTranscode(State, taskId, unlinkOk, FALSE))

WindowCancel(taskId) ==
    /\ Len(timers) < WindowTimers
    /\ Becomes(cancelTranscode(State, taskId))

WindowNext ==
    \/ \E r \in RequestedOutputs : WindowSubmit(r)
    \/ \E j \in TaskIds : Pause(j)
    \/ \E j \in TaskIds, u \in BOOLEAN : WindowResume(j, u)
    \/ \E j \in TaskIds : WindowCancel(j)
    \/ \E i \in 1..WindowTimers, u \in BOOLEAN : TimerFires(i, u, FALSE)
    \/ \E p \in 1..WindowProcs : ProcOpen(p)
    \/ \E p \in 1..WindowProcs : ProcKilled(p)
    \/ \E p \in 1..WindowProcs : DeliverError(p, [unlinkOk |-> TRUE, dirError |-> FALSE, elapsed |-> 1])

WindowSpec == Init /\ [][WindowNext]_vars

\* ------------------------------------------------------ generateLogReport
\* lines 1872-2017 when the report file is written.  appendOk: the appends to
\* the log file succeed during the call; when they do not, log throws at
\* line 2002, the catch block logs the failure (line 2010), log throws again
\* and the call is rejected (value FALSE).
generateLogReport(s, appendOk) ==
    IF appendOk
    THEN Result(log(s, "INFO", "REPORT", NoTask, TRUE), <<>>, TRUE)
    ELSE Result(log(log(s, "INFO", "REPORT", NoTask, FALSE), "ERROR", "REPORT", NoTask, FALSE),
                <<>>, FALSE)

\* the log of a session that has generated reports until one entry is missing to the limit
nearlyFullLogs ==
    [i \in 1..(maxGlobalLogs - 1) |->
        IF i <= Len(constructedLogs) THEN constructedLogs[i] ELSE LogEntry(i, "INFO", "REPORT", NoTask)]

LogInit ==
    /\ tasks = <<>>
    /\ procs = <<>>
    /\ files = {}
    /\ timers = <<>>
    /\ awaiting = {}
    /\ now = 0
    /\ validations = <<>>
    /\ globalLogs \in {constructedLogs, nearlyFullLogs}

\* entries logged since the initial state
Logged ==
    LET last == globalLogs[Len(globalLogs)].timestamp
    IN IF last < maxGlobalLogs - 1 THEN last - Len(constructedLogs) ELSE last - (maxGlobalLogs - 1)

GenerateLogReport(appendOk) ==
    /\ Logged < MaxLogCalls
    /\ Becomes(generateLogReport(State, appendOk))

LogNext == \E appendOk \in BOOLEAN : GenerateLogReport(appendOk)

LogSpec == LogInit /\ [][LogNext]_vars

\* ------------------------------------------------ validateHardwareEncoder
\* lines 1735-1867.  A call is the record of its closure: the probe process
\* (none, running, failed to spawn, closed), what the probe wrote and how it
\* exited, the 10 s timer, and the promise (no result, or the one it was
\* resolved with).
AccelFamilies == {"nvenc", "amf", "d3d11va"}
RequestedCodecs == {"libx264"}
\* what `ffmpeg -encoders` can list
Listings == {{"libx264", "libvpx"}, {"libx264", "libvpx", "h264_nvenc", "h264_amf"}}
\* exit codes of the close event: 0, 1, and null for a process that a signal ended
ExitCodes == {<<0>>, <<1>>, <<>>}
SpawnErrors == {"spawn ffmpeg ENOENT"}

ValidationIds == 1..MaxValidations

\* a promise keeps the value of the first call of resolve; here the last wins
resolve_LastWins(v, result) == [v EXCEPT !.result = <<result>>]

\* new Promise((resolve) => ...): later calls of resolve are ignored
resolve(v, result) == IF v.result = <<>> THEN [v EXCEPT !.result = <<result>>] ELSE v

\* lines 1739-1762 and 1773-1775
validateHardwareEncoder(hardwareAccel, videoCodec) ==
    LET call == [hardwareAccel |-> hardwareAccel, videoCodec |-> videoCodec,
                 testCodec |-> adjustCodec(hardwareAccel, videoCodec),
                 probe |-> "none", signalled |-> FALSE, timer |-> FALSE,
                 stdout |-> {}, code |-> <<>>, result |-> <<>>]
    IN IF hardwareAccel \in {"nvenc", "amf", "qsv"}
       THEN [call EXCEPT !.probe = "running", !.timer = TRUE]
       ELSE resolve(call, [isValid |-> TRUE, encoder |-> videoCodec, errorMessage |-> ""])

\* lines 1787-1797: the 10 s timer
onValidationTimeout(v) ==
    resolve([v EXCEPT !.timer = FALSE, !.signalled = TRUE],
            [isValid |-> FALSE, encoder |-> v.testCodec, errorMessage |-> "Validation timeout"])

\* lines 1799-1845: the close event of the probe
onProbeClose(v, code, stdout) ==
    LET closed == [v EXCEPT !.timer = FALSE, !.probe = "closed", !.signalled = FALSE,
                            !.code = code, !.stdout = stdout]
    IN IF code = <<0>>
       THEN IF v.testCodec \in stdout
            THEN resolve(closed, [isValid |-> TRUE, encoder |-> v.testCodec, errorMessage |-> ""])
            ELSE resolve(closed, [isValid |-> FALSE, encoder |-> v.testCodec,
                                  errorMessage |-> "Encoder not available in this FFmpeg build"])
       ELSE resolve(closed, [isValid |-> FALSE, encoder |-> v.testCodec,
                             errorMessage |-> "FFmpeg command failed"])

\* lines 1811, 1822 and 1835: the level of the entry the close event logs
closeLevel(v, code, stdout) ==
    IF code = <<0>> THEN IF v.testCodec \in stdout THEN "INFO" ELSE "WARN" ELSE "ERROR"

\* lines 1847-1862: the error event of the probe
onProbeError(v, message) ==
    resolve([v EXCEPT !.timer = FALSE, !.probe = "failed", !.signalled = FALSE],
            [isValid |-> FALSE, encoder |-> v.testCodec, errorMessage |-> message])

Validate(hardwareAccel, videoCodec) ==
    /\ Len(validations) < MaxValidations
    /\ validations' = Append(validations, validateHardwareEncoder(hardwareAccel, videoCodec))
    /\ globalLogs' = IF hardwareAccel \in {"nvenc", "amf", "qsv"}
                     THEN log(State, "INFO", "HARDWARE", NoTask, TRUE).globalLogs
                     ELSE globalLogs
    /\ UNCHANGED <<tasks, procs, files, timers, awaiting, now>>

ValidationTimeout(i) ==
    /\ i \in 1..Len(validations)
    /\ validations[i].timer
    /\ validations' = [validations EXCEPT ![i] = onValidationTimeout(@)]
    /\ globalLogs' = log(State, "WARN", "HARDWARE", NoTask, TRUE).globalLogs
    /\ UNCHANGED <<tasks, procs, files, timers, awaiting, now>>

\* the probe exits: of itself with 0 or 1, or by the signal
ProbeClose(i, code, stdout) ==
    /\ i \in 1..Len(validations)
    /\ validations[i].probe = "running"
    /\ code = <<>> => validations[i].signalled
    /\ validations' = [validations EXCEPT ![i] = onProbeClose(@, code, stdout)]
    /\ globalLogs' = log(State, closeLevel(validations[i], code, stdout), "HARDWARE", NoTask, TRUE).globalLogs
    /\ UNCHANGED <<tasks, procs, files, timers, awaiting, now>>

\* the probe could not be spawned
ProbeSpawnError(i, message) ==
    /\ i \in 1..Len(validations)
    /\ validations[i].probe = "running"
    /\ ~validations[i].signalled
    /\ validations[i].timer
    /\ validations' = [validations EXCEPT ![i] = onProbeError(@, message)]
    /\ globalLogs' = log(State, "ERROR", "HARDWARE", NoTask, TRUE).globalLogs
    /\ UNCHANGED <<tasks, procs, files, timers, awaiting, now>>

ValidatorNext ==
    \/ \E a \in AccelFamilies, c \in RequestedCodecs : Validate(a, c)
    \/ \E i \in ValidationIds : ValidationTimeout(i)
    \/ \E i \in ValidationIds, code \in ExitCodes, stdout \in Listings : ProbeClose(i, code, stdout)
    \/ \E i \in ValidationIds, m \in SpawnErrors : ProbeSpawnError(i, m)

ValidatorSpec == Init /\ [][ValidatorNext]_vars

\* a timer that is armed fires unless it is cleared
ValidatorFairSpec ==
    ValidatorSpec /\ \A i \in ValidationIds : WF_vars(ValidationTimeout(i))

\* ------------------------------------------- submit with a failing log file
\* startTranscode and the validator it awaits, call by call.  appendOk: the
\* appends to the log file (line 294) succeed during the step; when they do
\* not, the first log call of the step throws.

\* lines 361-571 when the append throws: in the executor of the validator's
\* promise (line 1764), which rejects it, or at line 565 after a validator that
\* resolved at once.  startTranscode is rejected (value 0) with the task in the table.
startTranscodeAppendFails(s, requested, options, elapsed) ==
    LET fixed == SubmittedOptions(options)
        taskId == Len(s.tasks) + 1
        created == [s EXCEPT !.tasks = Append(@, newTask(requested, fixed, s.files, s.now + elapsed)),
                             !.now = @ + elapsed]
    IN IF NeedsProbe(fixed)
       THEN Result(log(created, "INFO", "HARDWARE", NoTask, FALSE), <<>>, 0)
       ELSE IF ~isStreamCopy(options) /\ fixed.videoCodec # "" /\ fixed.hardwareAccel \notin {"", "none"}
       THEN Result(log(created, "INFO", "HARDWARE", taskId, FALSE), <<>>, 0)
       ELSE startTranscode(s, requested, options, FALSE, elapsed)

\* lines 1799-1811: the close handler clears the timer, and log throws before resolve
onProbeCloseThrows(v, code, stdout) ==
    [v EXCEPT !.timer = FALSE, !.probe = "closed", !.signalled = FALSE, !.code = code, !.stdout = stdout]

\* a step of a handler and of the validator calls
Continues(r, calls) ==
    /\ tasks' = r.tasks
    /\ procs' = r.procs
    /\ files' = r.files
    /\ timers' = r.timers
    /\ awaiting' = r.awaiting
    /\ now' = r.now
    /\ globalLogs' = r.globalLogs
    /\ validations' = calls

AppendSubmit(requested, options, elapsed, appendOk) ==
    /\ Len(tasks) < MaxJobs
    /\ Len(validations) < MaxValidations
    /\ elapsed \in Elapsed
    /\ LET fixed == SubmittedOptions(options)
       IN IF appendOk
          THEN Continues(startTranscode(State, requested, options, FALSE, elapsed),
                         IF NeedsProbe(fixed)
                         THEN Append(validations,
                                     validateHardwareEncoder(fixed.hardwareAccel, fixed.videoCodec)
                                        @@ [task |-> Len(tasks) + 1])
                         ELSE validations)
          ELSE Continues(startTranscodeAppendFails(State, requested, options, elapsed), validations)

\* the close event of the probe of call i; the call that it resolves goes on in startTranscode
AppendProbeClose(i, code, stdout, appendOk) ==
    /\ i \in 1..Len(validations)
    /\ validations[i].probe = "running"
    /\ code = <<>> => validations[i].signalled
    /\ LET v == validations[i]
           logged == log(State, closeLevel(v, code, stdout), "HARDWARE", NoTask, appendOk)
           resolved == onProbeClose(v, code, stdout)
       IN IF ~appendOk
          THEN Continues(Result(logged, <<>>, 0), [validations EXCEPT ![i] = onProbeCloseThrows(v, code, stdout)])
          ELSE Continues(IF v.result = <<>>
                         THEN startTranscodeValidated(logged, v.task, resolved.result[1].isValid)
                         ELSE Result(logged, <<>>, 0),
                         [validations EXCEPT ![i] = resolved])

\* the 10 s timer of call i fires; when log throws (line 1791) the probe is
\* not signalled and the promise is not resolved
AppendValidationTimeout(i, appendOk) ==
    /\ i \in 1..Len(validations)
    /\ validations[i].timer
    /\ LET v == validations[i]
           logged == log(State, "WARN", "HARDWARE", NoTask, appendOk)
       IN IF ~appendOk
          THEN Continues(Result(logged, <<>>, 0), [validations EXCEPT ![i].timer = FALSE])
          ELSE Continues(IF v.result = <<>>
                         THEN startTranscodeValidated(logged, v.task, FALSE)
                         ELSE Result(logged, <<>>, 0),
                         [validations EXCEPT ![i] = onValidationTimeout(v)])

AppendNext ==
    \/ \E r \in RequestedOutputs, o \in SubmitOptions, e \in {0, 1}, a \in BOOLEAN : AppendSubmit(r, o, e, a)
    \/ \E i \in ValidationIds, code \in ExitCodes, stdout \in Listings, a \in BOOLEAN :
          AppendProbeClose(i, code, stdout, a)
    \/ \E i \in ValidationIds, a \in BOOLEAN : AppendValidationTimeout(i, a)

AppendSpec == Init /\ [][AppendNext]_vars

\* ------------------------------------------------------------- properties
Started == 1..Len(procs)
Known == 1..Len(tasks)
AllErrorInputs == [unlinkOk : BOOLEAN, dirError : BOOLEAN, elapsed : {0, 1}]

\* notifications that report a failure to the user
FailureNotes(sent) ==
    {i \in 1..Len(sent) : sent[i].channel = "ffmpeg:failed"
                            \/ (sent[i].channel = "ffmpeg:progress" /\ sent[i].hasError)}

\* C1: once a job is Completed, no command and no process event changes its
\* state or its progress.
C1_CompletedIsTerminal ==
    [][\A j \in TaskIds :
          (j \in Known /\ tasks[j].status = "completed")
             => (tasks'[j].status = "completed" /\ tasks'[j].progress = tasks[j].progress)]_vars

\* C2: an end event that arrives while the job is Paused or Pending does not
\* complete the job and does not set its progress to 100, in the handler of
\* the initial run and in that of a resumed run.
C2_EndWhilePausedOrPending ==
    [][\A p \in ProcIds :
          (/\ Delivers(State, p, "end")
           /\ tasks[procs[p].task].status \in {"paused", "pending"}
           /\ DeliverEnd(p))
             => (/\ tasks'[procs[p].task].status # "completed"
                 /\ tasks'[procs[p].task].progress # 100)]_vars

\* C3: an error event that arrives while the job is Paused, or while it is
\* Pending with a message that contains SIGTERM, leaves state, progress and
\* lastError as they are and sends no failure notification.
C3_BenignErrorSuppressed ==
    \A p \in Started : \A in \in AllErrorInputs :
        LET j == procs[p].task
        IN (/\ Delivers(State, p, "error")
            /\ \/ tasks[j].status = "paused"
               \/ (tasks[j].status = "pending" /\ Next_(State, p).message = SigtermMessage))
           => LET r == onError(State, p, in.unlinkOk, in.dirError, in.elapsed)
              IN /\ r.tasks[j].status = tasks[j].status
                 /\ r.tasks[j].progress = tasks[j].progress
                 /\ r.tasks[j].error = tasks[j].error
                 /\ FailureNotes(r.sent) = {}

\* a job paused at 40% whose run died of the signal receives that error and
\* stays Paused at 40%
C3_Witness ==
    \E p \in Started :
        /\ Delivers(State, p, "error")
        /\ Next_(State, p).message = SigtermMessage
        /\ tasks[procs[p].task].status = "paused"
        /\ tasks[procs[p].task].progress = 40
        /\ onError(State, p, TRUE, FALSE, 1).tasks[procs[p].task].status = "paused"
        /\ onError(State, p, TRUE, FALSE, 1).tasks[procs[p].task].progress = 40

\* C4: the error event of a process that pause or cancel has signalled is
\* never reported as a failure, whatever commands ran in between: no failure
\* notification, lastError not set, state not changed.
C4_SignalledExitSuppressed ==
    \A p \in Started : \A in \in AllErrorInputs :
        LET j == procs[p].task
        IN (/\ Delivers(State, p, "error")
            /\ Next_(State, p).message = SigtermMessage)
           => LET r == onError(State, p, in.unlinkOk, in.dirError, in.elapsed)
              IN /\ r.tasks[j].status = tasks[j].status
                 /\ r.tasks[j].error = tasks[j].error
                 /\ FailureNotes(r.sent) = {}

\* C5: a progress event never changes the state of the job, and changes the
\* stored progress only while the job is Running.
C5_ProgressOnlyWhileRunning ==
    [][\A p \in ProcIds :
          (Delivers(State, p, "progress") /\ DeliverProgress(p))
             => (/\ tasks'[procs[p].task].status = tasks[procs[p].task].status
                 /\ tasks[procs[p].task].status # "running"
                       => tasks'[procs[p].task].progress = tasks[procs[p].task].progress)]_vars

\* C6: a job never has more than one encoder process that has been started
\* and has not exited.
C6_OneLiveProcessPerJob ==
    \A j \in Known : Cardinality({p \in Started : procs[p].task = j /\ procs[p].alive}) <= 1

\* C7: a Running job has a current run whose terminal event is still to be
\* delivered, and a resumeTranscode that returns false leaves the state of
\* the job as it was.
C7_NoOrphanedRunning ==
    /\ \A j \in Known :
          tasks[j].status = "running"
             => /\ tasks[j].command # NoCommand
                /\ procs[tasks[j].command].alive \/ procs[tasks[j].command].queue # <<>>
    /\ \A j \in Known : \A u \in BOOLEAN :
          LET r == resumeTranscode(State, j, u, TRUE)
          IN r.value = FALSE => r.tasks[j].status = tasks[j].status

\* C8: cancelTranscode on a job that is Pending returns false, signals no
\* process, leaves the task as it is and schedules no deletion.
C8_CancelPendingIsNoOp ==
    \A j \in Known :
        tasks[j].status = "pending"
           => LET r == cancelTranscode(State, j)
              IN /\ r.value = FALSE
                 /\ r.procs = procs
                 /\ r.tasks[j] = tasks[j]
                 /\ r.timers = timers

\* C9: after cancelTranscode on a Running job, and no other command, the job
\* is Pending with progress 0 once every event of its processes has been
\* delivered.
C9_CancelEndsPending ==
    \A j \in Known :
        (/\ \E i \in 1..Len(timers) : timers[i].task = j /\ timers[i].then = "nothing"
         /\ \A p \in Started : procs[p].task = j => (~procs[p].alive /\ procs[p].queue = <<>>))
           => (tasks[j].status = "pending" /\ tasks[j].progress = 0)

\* C10: pauseTranscode returns true exactly when the job exists and is
\* Running; then it signals the process, sets Paused, keeps the progress and
\* the output file; otherwise it returns false and changes nothing.
C10_PauseContract ==
    \A j \in TaskIds :
        LET r == pauseTranscode(State, j)
            running == j \in Known /\ tasks[j].status = "running"
        IN /\ r.value = TRUE <=> running
           /\ running
                 => /\ tasks[j].command \in Started
                    /\ procs[tasks[j].command].alive => r.procs[tasks[j].command].signalled
                    /\ r.tasks[j].status = "paused"
                    /\ r.tasks[j].progress = tasks[j].progress
                    /\ r.files = files
           /\ ~running
                 => /\ r.tasks = tasks /\ r.procs = procs /\ r.files = files
                    /\ r.timers = timers /\ r.awaiting = awaiting /\ r.now = now
                    /\ r.sent = <<>>

\* a job paused at 40% whose process has been signalled and whose output exists
C10_Witness ==
    \E j \in Known :
        /\ tasks[j].status = "paused"
        /\ tasks[j].progress = 40
        /\ procs[tasks[j].command].signalled
        /\ tasks[j].outputFile \in files
        /\ pauseTranscode(State, j).value = FALSE

\* what a resumeTranscode that returned true has left behind: the job is
\* Running at 0 on a process that was just started and has reported nothing,
\* and no notification carried the progress of the run before
FreshRun(r, j) ==
    /\ r.tasks[j].status = "running"
    /\ r.tasks[j].progress = 0
    /\ Len(r.procs) = Len(procs) + 1
    /\ r.tasks[j].command = Len(r.procs)
    /\ r.procs[Len(r.procs)] = newProc(j, "resumed", applyTranscodeOptions(tasks[j].options))
    /\ \A i \in 1..Len(r.sent) : r.sent[i].progress = 0

WasCancelled(j) ==
    /\ tasks[j].status = "pending"
    /\ tasks[j].command # NoCommand
    /\ tasks[j].error = NoError

\* C12: a cancelTranscode that returns true leaves the job Pending with
\* progress 0 and, once its delayed deletion has run to its end and every
\* process of the job has exited, the output file of the job does not exist.
C12_CancelledOutputRemoved ==
    /\ \A j \in Known :
          LET r == cancelTranscode(State, j)
          IN r.value = TRUE => (r.tasks[j].status = "pending" /\ r.tasks[j].progress = 0)
    /\ \A j \in Known :
          (/\ WasCancelled(j)
           /\ \A i \in 1..Len(timers) : timers[i].task # j
           /\ \A p \in Started : procs[p].task = j => ~procs[p].alive)
             => tasks[j].outputFile \notin files

\* the job that startTranscode has returned the id of
StartedRun(r, j) ==
    /\ j \in 1..Len(r.tasks)
    /\ r.tasks[j].status = "running"
    /\ r.tasks[j].command = Len(r.procs)
    /\ Len(r.procs) = Len(procs) + 1
    /\ r.procs[Len(r.procs)].task = j
    /\ r.procs[Len(r.procs)].alive

\* C13: startTranscode puts the job into the table Pending at 0; when it
\* returns the id the job is Running on a started process; a job in the
\* table that has no process yet is Pending; a startTranscode that fails on
\* the output directory adds no job.
C13_SubmitContract ==
    /\ \A q \in RequestedOutputs, o \in SubmitOptions, e \in {0, 1} :
          /\ LET r == startTranscode(State, q, o, TRUE, e)
             IN r.tasks = tasks /\ r.procs = procs /\ r.value = 0
          /\ LET r == startTranscode(State, q, o, FALSE, e)
                 j == Len(tasks) + 1
             IN /\ Len(r.tasks) = j
                /\ SubSeq(r.tasks, 1, Len(tasks)) = tasks
                /\ r.value \in {0, j}
                /\ r.value = j => StartedRun(r, j)
                /\ r.value = 0
                      => /\ j \in r.awaiting
                         /\ r.procs = procs
                         /\ r.tasks[j].status = "pending"
                         /\ r.tasks[j].progress = 0
    /\ \A j \in Known :
          tasks[j].command = NoCommand
             => /\ j \in awaiting
                /\ tasks[j].status = "pending"
                /\ tasks[j].progress = 0
    /\ \A j \in awaiting : \A v \in BOOLEAN :
          LET r == startTranscodeValidated(State, j, v)
          IN r.value = j /\ StartedRun(r, j) /\ j \notin r.awaiting

\* a job is in the table, Pending at 0, while startTranscode awaits the
\* probe, and is Running when startTranscode returns
C13_Witness ==
    \E j \in awaiting :
        /\ tasks[j].status = "pending"
        /\ tasks[j].progress = 0
        /\ startTranscodeValidated(State, j, TRUE).tasks[j].status = "running"

\* the notifications of a handler on one channel
OnChannel(sent, channel) == {i \in 1..Len(sent) : sent[i].channel = channel}

\* process p delivers a hardware failure that the handler does not take for
\* the effect of a pause or a cancel, to a job that asked for an accelerator
HardwareFailure(p) ==
    /\ Delivers(State, p, "error")
    /\ Next_(State, p).message = HardwareMessage
    /\ tasks[procs[p].task].status \notin {"paused"}
    /\ tasks[procs[p].task].options.hardwareAccel \notin {"", "none"}

\* the handler has replaced job j by a software job
Replaced(r, j, message) ==
    LET new == Len(tasks) + 1
    IN /\ Len(r.tasks) = new
       /\ r.tasks[new].options = [tasks[j].options EXCEPT !.hardwareAccel = "none"]
       /\ r.tasks[j].status = "cancelled"
       /\ r.tasks[j].error.kind = "switched"
       /\ r.tasks[j].error.newTaskId = new
       /\ Cardinality(OnChannel(r.sent, "ffmpeg:hardware-fallback")) = 1
       /\ \A i \in OnChannel(r.sent, "ffmpeg:hardware-fallback") :
             /\ r.sent[i].taskId = j
             /\ r.sent[i].originalHardwareAccel = tasks[j].options.hardwareAccel
             /\ r.sent[i].error = message
       /\ OnChannel(r.sent, "ffmpeg:failed") = {}

\* C14 as claimed: every hardware failure of a job with an accelerator
\* creates a software job, cancels the original with the id of the new job in
\* lastError, sends one hardware-fallback notification and no failed one.
C14_FallbackAlways ==
    \A p \in Started : \A in \in AllErrorInputs :
        HardwareFailure(p)
           => Replaced(onError(State, p, in.unlinkOk, in.dirError, in.elapsed),
                       procs[p].task, HardwareMessage)

\* C14 amended: it does so when the nested startTranscode does not throw;
\* when it throws (the output directory cannot be created) no job is added,
\* one hardware-fallback notification is sent and the original goes to
\* Pending at 0 with both errors in lastError.
C14_FallbackUnlessSubmitThrows ==
    \A p \in Started : \A in \in AllErrorInputs :
        HardwareFailure(p)
           => LET j == procs[p].task
                  r == onError(State, p, in.unlinkOk, in.dirError, in.elapsed)
              IN IF ~in.dirError
                 THEN Replaced(r, j, HardwareMessage)
                 ELSE /\ r.tasks = [Dequeued(State, p).tasks EXCEPT
                                       ![j].status = "pending", ![j].progress = 0,
                                       ![j].error = ErrorOf("fallbackFailed", HardwareMessage, 0),
                                       ![j].endTime = SomeTime]
                      /\ Cardinality(OnChannel(r.sent, "ffmpeg:hardware-fallback")) = 1

\* a running nvenc job whose encoder has reported that no device is there
C14_Witness ==
    \E p \in Started :
        /\ HardwareFailure(p)
        /\ tasks[procs[p].task].status = "running"
        /\ Replaced(onError(State, p, TRUE, FALSE, 1), procs[p].task, HardwareMessage)

C16_FallbackChainIsBounded ==
    /\ \A p \in Started : \A in \in AllErrorInputs :
          (/\ Delivers(State, p, "error")
           /\ tasks[procs[p].task].options.hardwareAccel = "none")
             => LET r == onError(State, p, in.unlinkOk, in.dirError, in.elapsed)
                IN /\ Len(r.tasks) = Len(tasks)
                   /\ OnChannel(r.sent, "ffmpeg:hardware-fallback") = {}
    /\ Len(tasks) <= 2

\* process p delivers an error that the handler takes for a failure of the
\* job and that is not answered by a fallback
OrdinaryFailure(p) ==
    /\ Delivers(State, p, "error")
    /\ tasks[procs[p].task].status # "paused"
    /\ ~(tasks[procs[p].task].status = "pending" /\ Next_(State, p).message = SigtermMessage)
    /\ ~(/\ Next_(State, p).message = HardwareMessage
         /\ tasks[procs[p].task].options.hardwareAccel \notin {"", "none"})

\* C17: every such error, in the initial run and in a resumed run, sets the
\* job to Pending at 0 with the message in lastError, and the handler tries
\* to delete the output file: a file that can be unlinked is gone.
C17_FailureResetsAndCleans ==
    \A p \in Started : \A in \in AllErrorInputs :
        OrdinaryFailure(p)
           => LET j == procs[p].task
                  r == onError(State, p, in.unlinkOk, in.dirError, in.elapsed)
              IN /\ r.tasks[j].status = "pending"
                 /\ r.tasks[j].progress = 0
                 /\ r.tasks[j].error = ErrorOf("message", Next_(State, p).message, 0)
                 /\ in.unlinkOk => tasks[j].outputFile \notin r.files

\* C18: every error that ends as a failure of the job (an ordinary failure,
\* or a hardware failure whose nested startTranscode threw) sends exactly one
\* ffmpeg:failed notification for the job, in the initial run and in a
\* resumed run.
C18_OneFailedNotification ==
    \A p \in Started : \A in \in AllErrorInputs :
        (OrdinaryFailure(p) \/ (HardwareFailure(p) /\ in.dirError))
           => LET r == onError(State, p, in.unlinkOk, in.dirError, in.elapsed)
              IN /\ Cardinality(OnChannel(r.sent, "ffmpeg:failed")) = 1
                 /\ \A i \in OnChannel(r.sent, "ffmpeg:failed") : r.sent[i].taskId = procs[p].task

\* C19: every end event that completes the job, in the initial run and in a
\* resumed run, sends exactly one ffmpeg:completed notification with the
\* duration, the two sizes and the compression ratio, and stores the
\* statistics on the task.
C19_CompletionReported ==
    \A p \in Started :
        Delivers(State, p, "end")
           => LET j == procs[p].task
                  r == onEnd(State, p)
              IN r.tasks[j].status = "completed"
                    => /\ Cardinality(OnChannel(r.sent, "ffmpeg:completed")) = 1
                       /\ \A i \in OnChannel(r.sent, "ffmpeg:completed") :
                             /\ r.sent[i].taskId = j
                             /\ {"duration", "inputSize", "outputSize", "compressionRatio"}
                                   \subseteq r.sent[i].statistics
                       /\ r.tasks[j].stats # NoStats

\* C20: while a job stays Running, a progress event of its current run never
\* lowers the stored progress.
C20_ProgressMonotone ==
    [][\A p \in ProcIds :
          (/\ Delivers(State, p, "progress")
           /\ tasks[procs[p].task].command = p
           /\ tasks[procs[p].task].status = "running"
           /\ DeliverProgress(p))
             => tasks'[procs[p].task].progress >= tasks[procs[p].task].progress]_vars

\* C21: the progress stored on a job and the progress carried by every
\* notification of the progress handler are within 0..100, whatever the raw
\* sample is.
C21_PercentInRange ==
    /\ \A j \in Known : tasks[j].progress \in 0..100
    /\ \A p \in Started :
          Delivers(State, p, "progress")
             => LET r == onProgress(State, p)
                IN /\ r.tasks[procs[p].task].progress \in 0..100
                   /\ \A i \in 1..Len(r.sent) : r.sent[i].progress \in 0..100

\* ------------------------------------------------------ plan specification
\* the options a caller can send: the values of the form, and containers
\* outside the form's list, which validateAndFixOptions provides for
PlanFormats == {"mp4", "mp3", "gif"}
PlanOptions ==
    [outputFormat : PlanFormats, videoCodec : {"", "libx264"}, audioCodec : {"", "aac"},
     videoBitrate : {"", "2000k"}, audioBitrate : {"", "192k"}, resolution : Resolutions,
     fps : {0, 30}, hardwareAccel : {"none", "nvenc"}]

PlanSubmit(o) ==
    /\ tasks = <<>>
    /\ Becomes(startTranscode(State, <<0>>, o, FALSE, 1))

\* the job is resumed once; the old output is gone or can be unlinked
PlanResume(taskId) ==
    /\ Len(procs) < MaxProcs
    /\ Exists(State, taskId)
    /\ Becomes(resumeTranscode(State, taskId, TRUE, FALSE))

PlanNext ==
    \/ \E o \in PlanOptions : PlanSubmit(o)
    \/ \E j \in TaskIds, isValid \in BOOLEAN : ProbeResolved(j, isValid)
    \/ \E j \in TaskIds : Pause(j)
    \/ \E j \in TaskIds : PlanResume(j)

PlanSpec == Init /\ [][PlanNext]_vars

NoOverride(o) ==
    /\ o.videoCodec = ""
    /\ o.audioCodec = ""
    /\ o.resolution = NoResolution
    /\ o.fps = 0

\* C22: a submit builds a stream-copy plan exactly when no codec,
\* no bitrate (video or audio), no resolution and no frame rate is requested
\* and the container is one of the six whitelisted; a plan built after the
\* encoder probe never copies.
C22_StreamCopyNoBitrate ==
    [][/\ \A o \in PlanOptions :
             PlanSubmit(o)
                => ((Len(procs') = 1 /\ procs'[1].plan.streamCopy)
                       <=> /\ NoOverride(o)
                           /\ o.videoBitrate = ""
                           /\ o.audioBitrate = ""
                           /\ o.outputFormat \in {"mp4", "avi", "mov", "flv", "mkv", "webm"})
       /\ \A j \in TaskIds, isValid \in BOOLEAN :
             ProbeResolved(j, isValid) => ~procs'[Len(procs')].plan.streamCopy]_vars

\* the table of lines 639-651, by equality of the resolution
TableBitrate(resolution) ==
    CASE resolution = R640x360 -> "500k"
      [] resolution = R1280x720 -> "1500k"
      [] resolution = R1920x1080 -> "3000k"
      [] resolution = R2560x1440 -> "6000k"
      [] resolution = R3840x2160 -> "12000k"
      [] OTHER -> "1000k"

BitratePolicy(o, plan) ==
    /\ o.videoBitrate # "" => plan.videoBitrate = o.videoBitrate
    /\ o.videoBitrate = "" /\ o.resolution # NoResolution
          => plan.videoBitrate = TableBitrate(o.resolution)

\* C23: in a re-encoding plan, built at the submit or after the encoder probe,
\* an explicit video bitrate is used as given for every resolution; without
\* one, a set resolution gives the table's value.
C23_BitratePolicy ==
    [][/\ \A o \in PlanOptions :
             PlanSubmit(o) /\ Len(procs') = 1 /\ ~procs'[1].plan.streamCopy
                => BitratePolicy(o, procs'[1].plan)
       /\ \A j \in TaskIds, isValid \in BOOLEAN :
             ProbeResolved(j, isValid)
                => BitratePolicy(tasks[j].options, procs'[Len(procs')].plan)]_vars

C23_Witness ==
    \E p \in Started :
        /\ ~procs[p].plan.streamCopy
        /\ tasks[procs[p].task].options.videoBitrate = ""
        /\ tasks[procs[p].task].options.resolution = R1280x720
        /\ procs[p].plan.videoBitrate = "1500k"

\* C24: no step removes a job from the table: every id the table holds before
\* a command or a process event is still retrievable after it, and names the
\* same job.
C24_JobsAreKept ==
    [][\A j \in Known :
          /\ getTaskStatus([tasks |-> tasks'], j) # {}
          /\ \A task \in getTaskStatus([tasks |-> tasks'], j) :
                task.requested = tasks[j].requested]_vars

C24_Witness ==
    \E j \in Known, k \in Known :
        /\ tasks[j].status = "cancelled"
        /\ tasks[k].status \in {"completed", "failed"}

\* C25: no two jobs of the table have the same output path.
C25_OutputPathsDiffer ==
    \A j \in Known, k \in Known : j # k => tasks[j].outputFile # tasks[k].outputFile

\* the jobs other than j are in r as they are now
Untouched(r, j) ==
    \A k \in Known \ {j} :
        /\ r.tasks[k].status = tasks[k].status
        /\ r.tasks[k].progress = tasks[k].progress
        /\ r.tasks[k].error = tasks[k].error
        /\ r.tasks[k].outputFile = tasks[k].outputFile

\* C26: a pause, resume or cancel of a job and a progress, end or error event
\* of one of its processes leave status, progress, error and output path of
\* every other job of the table as they are; only an error event adds a job,
\* and no more than one.
C26_JobsAreIndependent ==
    /\ \A j \in Known :
          /\ Untouched(pauseTranscode(State, j), j)
          /\ Len(pauseTranscode(State, j).tasks) = Len(tasks)
          /\ Untouched(cancelTranscode(State, j), j)
          /\ Len(cancelTranscode(State, j).tasks) = Len(tasks)
          /\ \A u \in BOOLEAN, d \in BOOLEAN :
                /\ Untouched(resumeTranscode(State, j, u, d), j)
                /\ Len(resumeTranscode(State, j, u, d).tasks) = Len(tasks)
    /\ \A i \in 1..Len(timers) : \A u \in BOOLEAN, d \in BOOLEAN :
          /\ Untouched(safeDeleteFile(State, i, u, d), timers[i].task)
          /\ Len(safeDeleteFile(State, i, u, d).tasks) = Len(tasks)
    /\ \A p \in Started :
          /\ Delivers(State, p, "progress")
                => /\ Untouched(onProgress(State, p), procs[p].task)
                   /\ Len(onProgress(State, p).tasks) = Len(tasks)
          /\ Delivers(State, p, "end")
                => /\ Untouched(onEnd(State, p), procs[p].task)
                   /\ Len(onEnd(State, p).tasks) = Len(tasks)
          /\ Delivers(State, p, "error")
                => \A in \in AllErrorInputs :
                      LET r == onError(State, p, in.unlinkOk, in.dirError, in.elapsed)
                      IN /\ Untouched(r, procs[p].task)
                         /\ Len(r.tasks) \in {Len(tasks), Len(tasks) + 1}

\* two jobs, the second at 40%, and the first takes a cancel
C26_Witness ==
    \E j \in Known, k \in Known :
        /\ j # k
        /\ tasks[k].progress = 40
        /\ tasks[k].status = "running"
        /\ cancelTranscode(State, j).value

Validated == 1..Len(validations)

\* C27: a call of the validator has the result isValid = true only if its
\* probe ran, exited with code 0 and listed the resolved encoder; a probe that
\* failed to spawn, exited with another code or ran into the timeout gives
\* isValid = false with a non-empty errorMessage, for every accel family.
C27_ValidOnlyAfterProbe ==
    \A i \in Validated : \A r \in {validations[i].result[k] : k \in 1..Len(validations[i].result)} :
        /\ r.isValid => /\ validations[i].probe = "closed"
                         /\ validations[i].code = <<0>>
                         /\ validations[i].testCodec \in validations[i].stdout
        /\ ~r.isValid => r.errorMessage # ""

C29_ResumeWindowSerialized ==
    \A i \in 1..Len(timers) : \A u \in UnlinkResults(State, timers[i].file) :
        LET j == timers[i].task
            r == safeDeleteFile(State, i, u, FALSE)
        IN (timers[i].then = "resume" /\ tasks[j].status # "paused")
              => /\ Len(r.procs) = Len(procs)
                 /\ r.tasks[j].status = tasks[j].status
                 /\ ~r.value

\* C30: while a job is Completed and its output is on disk, nothing the
\* orchestrator does removes the output: not a timer that fires, not an error
\* event that is delivered, and not a cancel of the job followed by its
\* delayed deletion.
C30_CompletedOutputKept ==
    \A j \in Known :
        (tasks[j].status = "completed" /\ tasks[j].outputFile \in files)
           => /\ \A i \in 1..Len(timers) : \A u \in UnlinkResults(State, timers[i].file) :
                    tasks[j].outputFile \in safeDeleteFile(State, i, u, FALSE).files
              /\ \A p \in Started : \A in \in AllErrorInputs :
                    (Delivers(State, p, "error")
                       /\ in.unlinkOk \in UnlinkResults(State, tasks[procs[p].task].outputFile))
                       => tasks[j].outputFile
                             \in onError(State, p, in.unlinkOk, in.dirError, in.elapsed).files
              /\ LET cancelled == cancelTranscode(State, j)
                 IN cancelled.value
                       => \A u \in UnlinkResults(cancelled, tasks[j].outputFile) :
                             tasks[j].outputFile
                                \in safeDeleteFile(cancelled, Len(cancelled.timers), u, FALSE).files

\* the job of process p runs a later, resumed process that is alive and has
\* opened the output
SupersededBy(p, q) ==
    /\ q \in Started
    /\ q # p
    /\ procs[q].task = procs[p].task
    /\ tasks[procs[p].task].command = q
    /\ tasks[procs[p].task].status = "running"
    /\ procs[q].run = "resumed"
    /\ procs[q].alive
    /\ procs[q].opened

\* C31: while a resumed run of a job is alive and writing the output, a late
\* progress or error event of an earlier process of the job neither removes
\* the output file nor takes the job out of Running.
C31_LateEventsSpareResumedRun ==
    \A p \in Started, q \in Started :
        SupersededBy(p, q)
           => LET j == procs[p].task
              IN /\ Delivers(State, p, "progress")
                       => /\ onProgress(State, p).tasks[j].status = "running"
                          /\ tasks[j].outputFile \in onProgress(State, p).files
                 /\ Delivers(State, p, "error")
                       => \A in \in AllErrorInputs :
                             in.unlinkOk \in UnlinkResults(State, tasks[j].outputFile)
                                => LET r == onError(State, p, in.unlinkOk, in.dirError, in.elapsed)
                                   IN /\ r.tasks[j].status = "running"
                                      /\ tasks[j].outputFile \in r.files

\* C32: the plan of a resumed run of a job agrees with the plan of its
\* initial run in the stream-copy decision, the video codec, the video
\* bitrate and the exclusion of the video stream.
C32_ResumedPlanEquivalent ==
    \A p \in Started, q \in Started :
        (procs[p].task = procs[q].task /\ procs[p].run = "initial" /\ procs[q].run = "resumed")
           => /\ procs[q].plan.streamCopy = procs[p].plan.streamCopy
              /\ procs[q].plan.videoCodec = procs[p].plan.videoCodec
              /\ procs[q].plan.videoBitrate = procs[p].plan.videoBitrate
              /\ procs[q].plan.noVideo = procs[p].plan.noVideo

\* a combination the validator supports
Supported(o) ==
    IF o.videoCodec = "" /\ o.audioCodec # ""
    THEN /\ o.outputFormat \in {"mp3", "aac", "flac", "wav", "ogg", "mp4", "m4a"}
         /\ o.audioCodec \in {"aac", "libmp3lame", "flac", "pcm_s16le", "libvorbis"}
    ELSE /\ o.outputFormat \in {"mp4", "avi", "mov", "flv", "mkv", "webm"}
         /\ o.videoCodec # ""
               => o.videoCodec \in {"libx264", "libx265", "libvpx", "libvpx-vp9", "h264_nvenc",
                                     "hevc_nvenc", "h264_amf", "hevc_amf", "h264_qsv", "hevc_qsv"}
         /\ o.audioCodec # "" => o.audioCodec \in {"aac", "opus", "flac", "libvorbis"}
         /\ o.outputFormat = "flv" => o.audioCodec \notin {"opus", "flac"}
         /\ o.outputFormat = "webm"
               => /\ o.videoCodec \in {"libvpx", "libvpx-vp9"}
                  /\ o.audioCodec \in {"opus", "libvorbis"}

\* C33: the options of every job that went through the validator (its plan
\* is no stream copy) are a supported combination, and the validator applied
\* to them changes nothing.
C33_ValidatorGivesSupported ==
    \A p \in Started :
        ~procs[p].plan.streamCopy
           => /\ Supported(tasks[procs[p].task].options)
              /\ validateAndFixOptions(tasks[procs[p].task].options) = tasks[procs[p].task].options

\* a webm job whose codecs the validator has set
C33_Witness ==
    \E p \in Started :
        /\ ~procs[p].plan.streamCopy
        /\ tasks[procs[p].task].options.outputFormat = "webm"
        /\ tasks[procs[p].task].options.videoCodec = "libvpx-vp9"
        /\ tasks[procs[p].task].options.audioCodec = "opus"

\* lines 1589-1590 and 1259: audio-only extraction is a job with no video codec and an audio codec
isAudioOnly(o) == o.videoCodec = "" /\ o.audioCodec # ""

\* C34: every run, initial or resumed, of a job in audio-only extraction mode has a plan
\* that excludes the video stream, and the job's container and codec are taken from
\* the audio-only tables.
C34_AudioOnlyExcludesVideo ==
    \A p \in 1..Len(procs) :
        isAudioOnly(tasks[procs[p].task].options)
           => /\ procs[p].plan.noVideo
              /\ tasks[procs[p].task].options.outputFormat
                     \in {"mp3", "aac", "flac", "wav", "ogg", "mp4", "m4a"}
              /\ tasks[procs[p].task].options.audioCodec
                     \in {"aac", "libmp3lame", "flac", "pcm_s16le", "libvorbis"}

\* C35: when the encoder probe of a submission fails and the job is downgraded to
\* software encoding, the plan that is started has no hardware-acceleration input
\* options and a software video codec: it is the plan of the same job submitted
\* with hardwareAccel 'none'.
C35_DowngradedPlanIsSoftware ==
    [][\A j \in 1..MaxJobs :
          ProbeResolved(j, FALSE)
             => /\ tasks'[j].options.hardwareAccel = "none"
                /\ procs'[tasks'[j].command].plan.hwaccelInput = ""
                /\ procs'[tasks'[j].command].plan
                      = initialPlan([tasks[j].options EXCEPT !.hardwareAccel = "none"], FALSE, TRUE)]_vars

\* C36: after every call of log the global log holds at most maxGlobalLogs
\* entries, and a call that shortens it leaves the keptGlobalLogs most recent
\* entries, the new one last, in the order they had.
C36_GlobalLogBounded ==
    /\ [](Len(globalLogs) <= maxGlobalLogs)
    /\ [][Len(globalLogs') < Len(globalLogs)
             => /\ Len(globalLogs') = keptGlobalLogs
                /\ \A i \in 1..(keptGlobalLogs - 1) :
                      globalLogs'[i] = globalLogs[Len(globalLogs) - keptGlobalLogs + 1 + i]
                /\ globalLogs'[keptGlobalLogs].timestamp > globalLogs[Len(globalLogs)].timestamp]_vars

\* C37: a log file that cannot be written leaves no job pending for ever
\* without a process: a pending job that has no process is one whose submit
\* awaits a validator call that has no result yet and whose probe or timer
\* can still give it one.
C37_AppendFailureHarmless ==
    \A j \in Known :
        (tasks[j].status = "pending" /\ tasks[j].command = NoCommand)
           => \E i \in Validated :
                 /\ validations[i].task = j
                 /\ j \in awaiting
                 /\ validations[i].result = <<>>
                 /\ (validations[i].timer \/ validations[i].probe = "running")

\* C38: a submit whose container or codec the option validator changes appends
\* an entry to the log of the submitted job and returns the job's id.
C38_DowngradeIsLogged ==
    [][\A o \in ValidatorOptions :
          (OptionSubmit(o) /\ ~isStreamCopy(o) /\ validateAndFixOptions(o) # o)
             => /\ tasks'[Len(tasks')].options = validateAndFixOptions(o)
                /\ tasks'[Len(tasks')].logs # <<>>
                /\ startTranscode(State, <<0>>, o, FALSE, 1).value = Len(tasks')]_vars

\* C39: in every state a completed job has progress 100, and a job that is
\* pending after a cancel or a failure (its endTime or its error is set) has
\* progress 0.
C39_ProgressMatchesStatus ==
    \A j \in Known :
        /\ tasks[j].status = "completed" => tasks[j].progress = 100
        /\ (tasks[j].status = "pending" /\ (tasks[j].endTime = SomeTime \/ tasks[j].error # NoError))
              => tasks[j].progress = 0

\* a job that was cancelled, with a progress event of its process still to be delivered
C39_Witness ==
    \E p \in Started :
        /\ tasks[procs[p].task].status = "pending"
        /\ tasks[procs[p].task].endTime = SomeTime
        /\ tasks[procs[p].task].progress = 0
        /\ Delivers(State, p, "progress")
        /\ Next_(State, p).percent = 40

====
